---------------------------- MODULE Spec2Model ----------------------------
(***************************************************************************)
(* A model of datagen.py (class DataGen): the constructor's volume         *)
(* planning, update_constraints, write2file and the sequential/threaded    *)
(* scheduler in generate.                                                  *)
(*                                                                         *)
(* The source is Python 2 (xrange in FUNC): `/` on integers is floor       *)
(* division, round() rounds half away from zero, an exception raised in a  *)
(* Thread's target ends that thread only and Thread.join returns normally. *)
(*                                                                         *)
(* Two attributes are read but never assigned by the class: self.size in   *)
(* count mode (check_storage, line 112) and self.FIELDLIST (writer, line   *)
(* 157).  env.inherited names the ones the instance finds on its class     *)
(* (a subclass or a caller may define them); it is {} for DataGen as       *)
(* written, where both reads raise AttributeError.                         *)
(***************************************************************************)
EXTENDS Integers, Sequences, FiniteSets, TLC

(***************************************************************************)
(* Bounds of the model.                                                    *)
(***************************************************************************)
\* longest args.SIZE string the constructor specification enumerates
MaxSizeLen == 3
\* largest --files value the generation specification enumerates
MaxFiles == 5
\* largest --threads value the generation specification enumerates
MaxThreads == 3
\* number of batch writes the environment may fail with IOError in one run
MaxIOFailures == 1
\* most overrides in one update_constraints call
MaxOverrides == 2
\* wave-loop iterations explored when thread_count is negative (the loop
\* of lines 202-216 then never ends)
MaxRunawayWaves == 2

(***************************************************************************)
(* Program constants.                                                      *)
(***************************************************************************)
\* SIZE_PER_FILE = 10 * 1024 * 1024
SIZE_PER_FILE == 10485760
\* the record ceiling of line 85
RECORDS_PER_FILE == 100000
\* nrows_threshold of write2file
nrows_threshold == 100000
\* argparse default of --records
DEFAULT_NUM_RECORDS == 1000
\* bytes of the shortest and longest csv row of a one-column TINYINT
\* schema: randint(1, 2**2**3) has 1 to 3 digits, csv.writer ends a row
\* with "\r\n"
MinRowBytes == 3
MaxRowBytes == 5
\* largest integer the model checker represents; Python integers are
\* unbounded, inputs whose value would exceed it are not enumerated
MaxInt == 1073741823 * 2 + 1

(***************************************************************************)
(* Small helpers.                                                          *)
(***************************************************************************)
Abs(x) == IF x < 0 THEN -x ELSE x

Max2(a, b) == IF a >= b THEN a ELSE b

\* Python 2 integer division a / b (floor), b # 0
PyFloorDiv(a, b) == IF b > 0 THEN a \div b ELSE (-a) \div (-b)

\* Python truthiness of an optional integer argument: None is <<>>, the
\* integer n is <<n>>; None and 0 are false
Truthy(opt) == opt # <<>> /\ opt[1] # 0

(***************************************************************************)
(* Strings are sequences of one-character strings.                         *)
(***************************************************************************)
DigitChars == {"0", "1", "2", "3", "4", "5", "6", "7", "8", "9"}

DigitVal(c) ==
  CASE c = "0" -> 0 [] c = "1" -> 1 [] c = "2" -> 2 [] c = "3" -> 3
    [] c = "4" -> 4 [] c = "5" -> 5 [] c = "6" -> 6 [] c = "7" -> 7
    [] c = "8" -> 8 [] c = "9" -> 9

\* str.upper() on the characters the model uses
UpperChar(c) ==
  CASE c = "k" -> "K" [] c = "m" -> "M" [] c = "g" -> "G" [] c = "t" -> "T"
    [] c = "x" -> "X" [] OTHER -> c

ALLOWED_UNITS == {"K", "M", "G", "T"}

\* args.SIZE when the option is absent (None)
NoSize == <<"None">>

\* `if args.SIZE:` - None and the empty string are false
SizeGiven(s) == s # NoSize /\ s # <<>>

RECURSIVE LStrip(_)
LStrip(s) == IF s # <<>> /\ Head(s) = " " THEN LStrip(Tail(s)) ELSE s

RECURSIVE RStrip(_)
RStrip(s) ==
  IF s # <<>> /\ s[Len(s)] = " " THEN RStrip(SubSeq(s, 1, Len(s) - 1)) ELSE s

RECURSIVE DigitsValue(_)
DigitsValue(s) ==
  IF s = <<>> THEN 0
  ELSE 10 * DigitsValue(SubSeq(s, 1, Len(s) - 1)) + DigitVal(s[Len(s)])

\* int(s) of Python 2 for a str: surrounding whitespace is stripped, one
\* leading sign is accepted, the rest must be one or more decimal digits.
\* ok = FALSE stands for ValueError.
PyInt(s) ==
  LET t == RStrip(LStrip(s))
      signed == t # <<>> /\ Head(t) \in {"+", "-"}
      body == IF signed THEN Tail(t) ELSE t
      ok == body # <<>> /\ \A i \in 1..Len(body) : body[i] \in DigitChars
  IN  [ok |-> ok,
       val |-> IF ~ok THEN 0
               ELSE IF signed /\ Head(t) = "-" THEN -DigitsValue(body)
               ELSE DigitsValue(body)]

\* size * 1024 ** k, multiplied one factor at a time
RECURSIVE Times1024(_, _)
Times1024(n, k) == IF k = 0 THEN n ELSE Times1024(n * 1024, k - 1)

UnitPower(unit) ==
  CASE unit = "K" -> 1 [] unit = "M" -> 2 [] unit = "G" -> 3 [] unit = "T" -> 4

\* int(round(x, -1)) of Python 2: to the nearest multiple of 10, a half
\* away from zero
Round10(x) ==
  LET m == Abs(x)
      r == m % 10
      n == IF r >= 5 THEN m - r + 10 ELSE m - r
  IN  IF x < 0 THEN -n ELSE n

\* lines 58-77: the value self.size gets from args.SIZE, or the exception.
\* err is "" when a size is resolved.
ParseSize(s) ==
  LET whole == PyInt(s)
      unit == UpperChar(s[Len(s)])
      prefix == PyInt(SubSeq(s, 1, Len(s) - 1))
  IN  IF whole.ok THEN [err |-> "", size |-> whole.val]
      ELSE IF ~prefix.ok THEN [err |-> "Exception_pattern", size |-> 0]
      ELSE IF unit \in ALLOWED_UNITS
           THEN [err |-> "", size |-> Times1024(prefix.val, UnitPower(unit))]
      ELSE [err |-> "Exception_units", size |-> 0]

(***************************************************************************)
(* State.                                                                  *)
(***************************************************************************)
VARIABLES
  args,                 \* the parsed command line handed to DataGen(args)
  env,                  \* the environment: attributes the instance finds
                        \* on its class, free space, write permission
  pc,                   \* position of the main thread
  error,                \* the exception that ended the run, "" if none
  use_size,             \* self.use_size
  size,                 \* self.size (meaningful when "size" \in attrs)
  attrs,                \* instance attributes __init__ has assigned
  num_records,          \* self.num_records
  num_files,            \* self.num_files
  concurrency_enabled,  \* self.concurrency_enabled
  thread_count,         \* self.thread_count
  max_per_file,         \* generate's local max_per_file
  start,                \* generate's local start
  stop,                 \* generate's local stop
  threads,              \* generate's local threads: the file indexes of
                        \* the wave's Thread objects, in list order
  cursor,               \* next element of a list comprehension or range
  wave,                 \* iterations of the wave loop begun so far
  task,                 \* every write2file execution so far, by file index
  disk,                 \* the output files: index -> rows and bytes
  ioFailures,           \* batch writes failed with IOError so far
  launchLog,            \* history: the (wave, file, quota) of each Thread
  cfg0,                 \* history: the configuration __init__ resolved
  CONSTRAINTS,          \* DataGen.CONSTRAINTS
  ucArg,                \* the mapping of the last update_constraints call
  ucResult              \* how that call ended

vars == <<args, env, pc, error, use_size, size, attrs, num_records,
          num_files, concurrency_enabled, thread_count, max_per_file,
          start, stop, threads, cursor, wave, task, disk, ioFailures, launchLog,
          cfg0, CONSTRAINTS, ucArg, ucResult>>

objVars == <<use_size, size, attrs, num_records, num_files,
             concurrency_enabled, thread_count>>

genVars == <<max_per_file, start, stop, threads, cursor, wave, task, disk,
             ioFailures, launchLog>>

ucVars == <<CONSTRAINTS, ucArg, ucResult>>

(***************************************************************************)
(* The constructor.                                                        *)
(***************************************************************************)
\* lines 82-87: self.num_files
ResolveNumFiles(a, useSize, sz) ==
  IF Truthy(a.NUM_FILES) THEN a.NUM_FILES[1]
  ELSE IF useSize
       THEN (IF sz > SIZE_PER_FILE THEN PyFloorDiv(sz, SIZE_PER_FILE) ELSE 1)
       ELSE (IF a.NUM_RECORDS > RECORDS_PER_FILE
             THEN PyFloorDiv(a.NUM_RECORDS, RECORDS_PER_FILE) ELSE 1)

\* value of a class attribute `size` when the class provides one
InheritedSize == 0

\* lines 106-121: check_storage; "" when it returns.  self.size is an
\* instance attribute only in size mode (line 59-78); otherwise the lookup
\* falls through to the class, and DataGen itself defines no `size`.
check_storage(e, useSize, sz) ==
  LET bound == useSize \/ "size" \in e.inherited
      seen == IF useSize THEN sz ELSE InheritedSize
  IN  IF ~bound THEN "AttributeError_size"
      ELSE IF seen > e.free_space THEN "Exception_space"
      ELSE IF ~e.writable THEN "Exception_permission"
      ELSE ""

\* lines 50-104: DataGen.__init__(args): every assignment made before the
\* exception, if any, and the exception
DataGen_init(a, e) ==
  LET useSize == SizeGiven(a.SIZE)
      parsed == IF useSize THEN ParseSize(a.SIZE) ELSE [err |-> "", size |-> 0]
      sz == Round10(parsed.size)
      stor == check_storage(e, useSize, sz)
  IN  IF parsed.err # ""
      THEN [error |-> parsed.err, attrs |-> {"num_records", "use_size"},
            use_size |-> useSize, size |-> 0,
            num_records |-> a.NUM_RECORDS, num_files |-> 0,
            concurrency_enabled |-> FALSE, thread_count |-> 0]
      ELSE [error |-> stor,
            attrs |-> {"num_records", "use_size", "num_files",
                       "concurrency_enabled", "field_list"}
                      \cup (IF useSize THEN {"size"} ELSE {})
                      \cup (IF Truthy(a.NUM_THREADS) THEN {"thread_count"} ELSE {}),
            use_size |-> useSize, size |-> IF useSize THEN sz ELSE 0,
            num_records |-> a.NUM_RECORDS,
            num_files |-> ResolveNumFiles(a, useSize, sz),
            concurrency_enabled |-> Truthy(a.NUM_THREADS),
            thread_count |-> IF Truthy(a.NUM_THREADS) THEN a.NUM_THREADS[1] ELSE 0]

Config == [use_size |-> use_size, size |-> size, num_records |-> num_records,
           num_files |-> num_files,
           concurrency_enabled |-> concurrency_enabled,
           thread_count |-> thread_count]

NoConfig == [use_size |-> FALSE, size |-> 0, num_records |-> 0,
             num_files |-> 0, concurrency_enabled |-> FALSE,
             thread_count |-> 0]

NoArgs == [SIZE |-> NoSize, NUM_RECORDS |-> DEFAULT_NUM_RECORDS,
           NUM_FILES |-> <<>>, NUM_THREADS |-> <<>>]

NoEnv == [inherited |-> {}, free_space |-> 0, writable |-> FALSE]

DefaultConstraints ==
  [DECIMAL_PRECISION |-> 5, DECIMAL_SCALE |-> 2, VARCHAR_MIN |-> 6,
   VARCHAR_MAX |-> 20, TEXT_MIN |-> 21, TEXT_MAX |-> 99, DAYS_AGO |-> 1095,
   DATE_FORMAT |-> "%Y-%m-%d", TIMESTAMP_FORMAT |-> "%Y-%m-%d %H:%M:%S"]

\* the process before DataGen(args) is evaluated
Init ==
  /\ args = NoArgs
  /\ env = NoEnv
  /\ pc = "start"
  /\ error = ""
  /\ use_size = FALSE
  /\ size = 0
  /\ attrs = {}
  /\ num_records = 0
  /\ num_files = 0
  /\ concurrency_enabled = FALSE
  /\ thread_count = 0
  /\ max_per_file = 0
  /\ start = 0
  /\ stop = 0
  /\ threads = <<>>
  /\ cursor = 0
  /\ wave = 0
  /\ task = <<>>
  /\ disk = <<>>
  /\ ioFailures = 0
  /\ launchLog = <<>>
  /\ cfg0 = NoConfig
  /\ CONSTRAINTS = DefaultConstraints
  /\ ucArg = <<>>
  /\ ucResult = "none"

\* line 273: datagen = DataGen(argparser.parse_args())
Construct(ArgSet, EnvSet) ==
  /\ pc = "start"
  /\ \E a \in ArgSet, e \in EnvSet :
       LET o == DataGen_init(a, e) IN
         /\ args' = a
         /\ env' = e
         /\ error' = o.error
         /\ pc' = IF o.error = "" THEN "constructed" ELSE "init_raised"
         /\ use_size' = o.use_size
         /\ size' = o.size
         /\ attrs' = o.attrs
         /\ num_records' = o.num_records
         /\ num_files' = o.num_files
         /\ concurrency_enabled' = o.concurrency_enabled
         /\ thread_count' = o.thread_count
         /\ cfg0' = [k \in DOMAIN NoConfig |-> o[k]]
  /\ UNCHANGED <<genVars, ucVars>>

(***************************************************************************)
(* Inputs of the constructor specification.                                *)
(***************************************************************************)
SizeAlphabet == {"0", "1", "9", "K", "m", "G", "T", "X", "-", " "}

RECURSIVE StringsUpTo(_)
StringsUpTo(n) ==
  IF n = 0 THEN {<<>>}
  ELSE LET shorter == StringsUpTo(n - 1)
       IN  shorter \cup {Append(s, c) : s \in shorter, c \in SizeAlphabet}

RECURSIVE DivBy1024(_, _)
DivBy1024(n, k) == IF k = 0 THEN n ELSE DivBy1024(n \div 1024, k - 1)

\* the resolved size of s is within the integers the model checker has
Representable(s) ==
  LET prefix == PyInt(SubSeq(s, 1, Len(s) - 1))
      unit == UpperChar(s[Len(s)])
  IN  \/ s = <<>>
      \/ PyInt(s).ok
      \/ ~prefix.ok
      \/ unit \notin ALLOWED_UNITS
      \/ Abs(prefix.val) <= DivBy1024(MaxInt - 10, UnitPower(unit))

SizeStrings == {s \in StringsUpTo(MaxSizeLen) : Representable(s)}

CtorArgs ==
  [SIZE : {NoSize} \cup SizeStrings,
   NUM_RECORDS : {DEFAULT_NUM_RECORDS, 100000, 250001},
   NUM_FILES : {<<>>, <<0>>, <<-1>>, <<MaxFiles>>},
   NUM_THREADS : {<<>>, <<MaxThreads>>}]

CtorEnvs ==
  [inherited : {{}, {"size"}}, free_space : {0, MaxInt}, writable : BOOLEAN]

ConstructAny == Construct(CtorArgs, CtorEnvs)

NextInit == ConstructAny

SpecInit == Init /\ [][NextInit]_vars

(***************************************************************************)
(* update_constraints.                                                     *)
(***************************************************************************)
\* the keys a caller passes in the model: the six numeric constraints with
\* a cross-field rule, one format, and one key in lower case
OverrideKeys ==
  {"DECIMAL_PRECISION", "DECIMAL_SCALE", "VARCHAR_MIN", "VARCHAR_MAX",
   "TEXT_MIN", "TEXT_MAX", "DATE_FORMAT", "varchar_max"}

\* the characters of a key, as ASCII codes
KeyCodes(k) ==
  CASE k = "DECIMAL_PRECISION" ->
         <<68, 69, 67, 73, 77, 65, 76, 95, 80, 82, 69, 67, 73, 83, 73, 79, 78>>
    [] k = "DECIMAL_SCALE" ->
         <<68, 69, 67, 73, 77, 65, 76, 95, 83, 67, 65, 76, 69>>
    [] k = "VARCHAR_MIN" ->
         <<86, 65, 82, 67, 72, 65, 82, 95, 77, 73, 78>>
    [] k = "VARCHAR_MAX" ->
         <<86, 65, 82, 67, 72, 65, 82, 95, 77, 65, 88>>
    [] k = "TEXT_MIN" ->
         <<84, 69, 88, 84, 95, 77, 73, 78>>
    [] k = "TEXT_MAX" ->
         <<84, 69, 88, 84, 95, 77, 65, 88>>
    [] k = "DATE_FORMAT" ->
         <<68, 65, 84, 69, 95, 70, 79, 82, 77, 65, 84>>
    [] k = "varchar_max" ->
         <<118, 97, 114, 99, 104, 97, 114, 95, 109, 97, 120>>

\* lexicographic order of two code sequences, as Python orders str
RECURSIVE CodesLess(_, _)
CodesLess(a, b) ==
  IF a = <<>> THEN b # <<>>
  ELSE IF b = <<>> THEN FALSE
  ELSE IF Head(a) # Head(b) THEN Head(a) < Head(b)
  ELSE CodesLess(Tail(a), Tail(b))

\* k.upper()
Upper(k) ==
  LET up == [i \in 1..Len(KeyCodes(k)) |->
               IF KeyCodes(k)[i] \in 97..122 THEN KeyCodes(k)[i] - 32
               ELSE KeyCodes(k)[i]]
  IN  CHOOSE K \in OverrideKeys : KeyCodes(K) = up

\* line 131: sorted(constraints.items(), key=itemgetter(0), reverse=True),
\* the keys of the sorted items
RECURSIVE SortedKeysDesc(_)
SortedKeysDesc(S) ==
  IF S = {} THEN <<>>
  ELSE LET top == CHOOSE k \in S :
                    \A j \in S \ {k} : CodesLess(KeyCodes(j), KeyCodes(k))
       IN  <<top>> \o SortedKeysDesc(S \ {top})

\* lines 135-144: the cross-field test made for key K (upper case) and
\* integer v against the constraints as they are at that moment
Rejects(C, K, v) ==
  CASE K = "DECIMAL_PRECISION" -> v < C.DECIMAL_SCALE
    [] K = "TEXT_MAX" -> v < C.TEXT_MIN
    [] K = "VARCHAR_MAX" -> v < C.VARCHAR_MIN
    [] OTHER -> FALSE

\* lines 131-146: the loop over the sorted items from position i on; an
\* exception leaves the earlier items applied
RECURSIVE ApplyItems(_, _, _, _)
ApplyItems(C, constraints, order, i) ==
  IF i > Len(order) THEN [C |-> C, result |-> "returned"]
  ELSE LET k == order[i]
           K == Upper(k)
           raw == constraints[k]
           numeric == K \notin {"DATE_FORMAT", "TIMESTAMP_FORMAT"}
       IN  IF numeric /\ ~raw.int
           THEN [C |-> C, result |-> "Exception_integer"]
           ELSE IF numeric /\ Rejects(C, K, raw.n)
           THEN [C |-> C, result |-> "Exception_cross"]
           ELSE ApplyItems([C EXCEPT ![K] = IF numeric THEN raw.n ELSE raw],
                           constraints, order, i + 1)

\* a value of the mapping: a string int() turns into n, or one it rejects
OverrideValues ==
  [int : {TRUE}, n : {1, 2, 5, 6, 20, 21, 30}] \cup {[int |-> FALSE, n |-> 0]}

Overrides ==
  UNION {[D -> OverrideValues] :
           D \in {S \in SUBSET OverrideKeys : Cardinality(S) <= MaxOverrides}}

\* lines 123-146: datagen.update_constraints(constraints), once, on the
\* class defaults
update_constraints ==
  /\ ucResult = "none"
  /\ \E constraints \in Overrides :
       LET r == ApplyItems(CONSTRAINTS, constraints,
                           SortedKeysDesc(DOMAIN constraints), 1)
       IN  /\ CONSTRAINTS' = r.C
           /\ ucResult' = r.result
           /\ ucArg' = constraints
  /\ UNCHANGED <<args, env, pc, error, objVars, genVars, cfg0>>

NextConstraints == update_constraints

SpecConstraints == Init /\ [][NextConstraints]_vars

(***************************************************************************)
(* write2file.  A task is one execution of write2file(fp, max_per_file):   *)
(* f is the file index its path is built from (prefix + str(f) + suffix:   *)
(* distinct indexes give distinct paths), rem is its local max_per_file,   *)
(* wave is the wave of its Thread (0: called by the main thread).          *)
(***************************************************************************)
Terminated == {"finished", "died"}

\* the argument of the next writer(nrows) call, lines 174, 180-184
NextBatchRows(useSize, rem) ==
  IF useSize THEN nrows_threshold
  ELSE IF rem > nrows_threshold THEN nrows_threshold ELSE rem

\* line 157: building a row reads self.FIELDLIST, which __init__ never
\* assigns (line 103 assigns self.field_list); range(nrows) is empty for
\* nrows <= 0 and the attribute is then not read
WriterRaisesAttributeError(e, nrows) ==
  nrows > 0 /\ "FIELDLIST" \notin e.inherited

\* lines 155-164: the bytes csv.writer appends for nrows rows.  Every total
\* from nrows * MinRowBytes to nrows * MaxRowBytes can occur; the model
\* takes both ends and, when it lies between them, the total that makes
\* the file exactly `wanted` bytes long.
BatchBytes(nrows, wanted) ==
  IF nrows <= 0 THEN {0}
  ELSE {nrows * MinRowBytes, nrows * MaxRowBytes}
         \cup ({wanted} \cap (nrows * MinRowBytes .. nrows * MaxRowBytes))

\* os.path.getsize and the rows of a file; open(fp, 'ab') creates it
FileOf(d, f) == IF f \in DOMAIN d THEN d[f] ELSE [rows |-> 0, bytes |-> 0]

Appended(d, f, nrows, b) ==
  LET old == FileOf(d, f)
      new == [rows |-> old.rows + Max2(nrows, 0), bytes |-> old.bytes + b]
  IN  [g \in DOMAIN d \cup {f} |-> IF g = f THEN new ELSE d[g]]

\* lines 172-177 and 179-185: does the loop go round again after a batch
LoopAgain(useSize, remAfter, fsize, quota) ==
  IF useSize THEN ~(fsize >= quota) ELSE remAfter # 0

\* lines 182, 185: max_per_file after a batch
RemAfter(useSize, rem) ==
  IF useSize THEN rem
  ELSE IF rem > nrows_threshold THEN rem - nrows_threshold ELSE 0

\* line 179: `while max_per_file:` is false on entry
W2FSkip(i) ==
  /\ task[i].st = "running"
  /\ ~use_size /\ task[i].rem = 0
  /\ task' = [task EXCEPT ![i].st = "finished"]
  /\ UNCHANGED <<disk, ioFailures>>

\* line 157: writer raises AttributeError; the exception leaves write2file
W2FAttributeError(i) ==
  /\ task[i].st = "running"
  /\ use_size \/ task[i].rem # 0
  /\ WriterRaisesAttributeError(env, NextBatchRows(use_size, task[i].rem))
  /\ task' = [task EXCEPT ![i].st = "died", ![i].err = "AttributeError"]
  /\ UNCHANGED <<disk, ioFailures>>

\* lines 158-164: open, writerows or close raises IOError
W2FIOError(i) ==
  /\ task[i].st = "running"
  /\ use_size \/ task[i].rem # 0
  /\ ~WriterRaisesAttributeError(env, NextBatchRows(use_size, task[i].rem))
  /\ ioFailures < MaxIOFailures
  /\ ioFailures' = ioFailures + 1
  /\ task' = [task EXCEPT ![i].st = "died", ![i].err = "IOError"]
  /\ UNCHANGED disk

\* one round of the loop: writer(nrows) appends a batch, then the loop test
W2FBatch(i) ==
  /\ task[i].st = "running"
  /\ use_size \/ task[i].rem # 0
  /\ LET t == task[i]
         nrows == NextBatchRows(use_size, t.rem)
         rem2 == RemAfter(use_size, t.rem)
     IN  /\ ~WriterRaisesAttributeError(env, nrows)
         /\ \E b \in BatchBytes(nrows, t.rem - FileOf(disk, t.f).bytes) :
              LET d2 == Appended(disk, t.f, nrows, b) IN
                /\ disk' = d2
                /\ task' = [task EXCEPT
                     ![i].rem = rem2,
                     ![i].batches = Append(t.batches, nrows),
                     ![i].st = IF LoopAgain(use_size, rem2, d2[t.f].bytes, t.rem)
                               THEN "running" ELSE "finished"]
  /\ UNCHANGED ioFailures

W2FStep(i) ==
  \/ W2FSkip(i)
  \/ W2FAttributeError(i)
  \/ W2FIOError(i)
  \/ W2FBatch(i)

NewTask(f, w, quota, st) ==
  [f |-> f, wave |-> w, quota |-> quota, rem |-> quota, st |-> st,
   err |-> "", batches |-> <<>>]

(***************************************************************************)
(* generate.                                                               *)
(***************************************************************************)
\* lines 195-198: max_per_file
PerFileQuota(useSize, sz, nrec, nfiles) ==
  IF useSize THEN PyFloorDiv(sz, nfiles) ELSE PyFloorDiv(nrec, nfiles)

\* lines 195-200: generate() up to the choice of scheduler
GenerateEnter ==
  /\ pc = "constructed"
  /\ IF num_files = 0
     THEN /\ pc' = "raised"
          /\ error' = "ZeroDivisionError"
          /\ UNCHANGED <<max_per_file, stop, cursor>>
     ELSE /\ max_per_file' = PerFileQuota(use_size, size, num_records, num_files)
          /\ error' = error
          /\ IF concurrency_enabled
             THEN /\ pc' = "wave"
                  /\ stop' = 1
                  /\ UNCHANGED cursor
             ELSE /\ pc' = "seq"
                  /\ cursor' = 1
                  /\ UNCHANGED stop
  /\ UNCHANGED <<args, env, objVars, start, threads, wave, task, disk,
                 ioFailures, launchLog, cfg0, ucVars>>

\* the bookkeeping with every wave taken to be a full one
WaveStopFullWave(stp, k, n) == stp + k

\* lines 204-209: stop after the wave's bookkeeping
WaveStop(stp, k, n) == IF k >= n THEN stp + n ELSE stp + k

\* lines 204-209: self.num_files after the wave's bookkeeping
WaveRemaining(k, n) == IF k >= n THEN 0 ELSE n - k

\* range(a, b) as a sequence
Range(a, b) == [i \in 1..Max2(b - a, 0) |-> a + i - 1]

\* line 202: `while self.num_files:` is false
WaveLoopExit ==
  /\ pc = "wave"
  /\ num_files = 0
  /\ pc' = "returned"
  /\ UNCHANGED <<args, env, error, objVars, genVars, cfg0, ucVars>>

\* lines 203-214: one wave's bookkeeping and its Thread objects
WaveDispatch ==
  /\ pc = "wave"
  /\ num_files # 0
  /\ thread_count < 0 => wave < MaxRunawayWaves
  /\ LET stop2 == WaveStop(stop, thread_count, num_files)
         fs == Range(stop, stop2)
         made == [j \in 1..Len(fs) |->
                    NewTask(fs[j], wave + 1, max_per_file, "created")]
     IN  /\ start' = stop
         /\ stop' = stop2
         /\ num_files' = WaveRemaining(thread_count, num_files)
         /\ wave' = wave + 1
         /\ threads' = [j \in 1..Len(fs) |-> Len(task) + j]
         /\ task' = task \o made
         /\ launchLog' = launchLog \o
              [j \in 1..Len(fs) |->
                 [wave |-> wave + 1, f |-> fs[j], quota |-> max_per_file]]
         /\ cursor' = 1
         /\ pc' = IF Len(fs) = 0 THEN "wave" ELSE "starting"
  /\ UNCHANGED <<args, env, error, use_size, size, attrs, num_records,
                 concurrency_enabled, thread_count, max_per_file, disk,
                 ioFailures, cfg0, ucVars>>

\* line 215: [thread.start() for thread in threads], one start
ThreadStart ==
  /\ pc = "starting"
  /\ task' = [task EXCEPT ![threads[cursor]].st = "running"]
  /\ cursor' = IF cursor = Len(threads) THEN 1 ELSE cursor + 1
  /\ pc' = IF cursor = Len(threads) THEN "joining" ELSE "starting"
  /\ UNCHANGED <<args, env, error, objVars, max_per_file, start, stop,
                 threads, wave, disk, ioFailures, launchLog, cfg0, ucVars>>

\* a join that does not wait for its thread
JoinReturnsAtOnce(st) == TRUE

\* Thread.join() returns once the thread has ended, whether its target
\* returned or raised
JoinReturns(st) == st \in Terminated

\* line 216: [thread.join() for thread in threads], one join
ThreadJoin ==
  /\ pc = "joining"
  /\ JoinReturns(task[threads[cursor]].st)
  /\ cursor' = IF cursor = Len(threads) THEN 1 ELSE cursor + 1
  /\ pc' = IF cursor = Len(threads) THEN "wave" ELSE "joining"
  /\ UNCHANGED <<args, env, error, objVars, max_per_file, start, stop,
                 threads, wave, task, disk, ioFailures, launchLog, cfg0,
                 ucVars>>

\* a started Thread runs one round of its write2file
ThreadRun ==
  /\ \E i \in 1..Len(task) :
       /\ task[i].wave > 0
       /\ W2FStep(i)
  /\ UNCHANGED <<args, env, pc, error, objVars, max_per_file, start, stop,
                 threads, cursor, wave, launchLog, cfg0, ucVars>>

\* line 218: the for loop is exhausted
SeqLoopExit ==
  /\ pc = "seq"
  /\ cursor > num_files
  /\ pc' = "returned"
  /\ UNCHANGED <<args, env, error, objVars, genVars, cfg0, ucVars>>

\* lines 218-220: the main thread calls write2file for the next f
SeqCall ==
  /\ pc = "seq"
  /\ cursor <= num_files
  /\ task' = Append(task, NewTask(cursor, 0, max_per_file, "running"))
  /\ pc' = "seq_write"
  /\ UNCHANGED <<args, env, error, objVars, max_per_file, start, stop,
                 threads, cursor, wave, disk, ioFailures, launchLog, cfg0,
                 ucVars>>

\* the main thread runs one round of write2file; an exception leaves
\* generate
SeqRun ==
  /\ pc = "seq_write"
  /\ W2FStep(Len(task))
  /\ LET st2 == task'[Len(task)].st IN
       /\ pc' = CASE st2 = "running" -> "seq_write"
                  [] st2 = "finished" -> "seq"
                  [] st2 = "died" -> "raised"
       /\ cursor' = IF st2 = "finished" THEN cursor + 1 ELSE cursor
       /\ error' = IF st2 = "died" THEN task'[Len(task)].err ELSE error
  /\ UNCHANGED <<args, env, objVars, max_per_file, start, stop, threads,
                 wave, launchLog, cfg0, ucVars>>

(***************************************************************************)
(* Inputs of the generation specification.                                 *)
(***************************************************************************)
GenArgs ==
  [SIZE : {NoSize, <<"1", "0", "0", "0", "0", "3", "0">>},
   NUM_RECORDS : {0, 1, 2500, 250001, 500000},
   NUM_FILES : {<<>>, <<-1>>} \cup {<<n>> : n \in 1..MaxFiles},
   NUM_THREADS : {<<>>, <<-1>>} \cup {<<k>> : k \in 1..MaxThreads}]

GenEnvs ==
  [inherited : SUBSET {"size", "FIELDLIST"}, free_space : {MaxInt},
   writable : {TRUE}]

ConstructForRun == Construct(GenArgs, GenEnvs)

\* lines 272-274: the script: DataGen(args), then generate()
Next ==
  \/ ConstructForRun
  \/ GenerateEnter
  \/ WaveLoopExit
  \/ WaveDispatch
  \/ ThreadStart
  \/ ThreadJoin
  \/ ThreadRun
  \/ SeqLoopExit
  \/ SeqCall
  \/ SeqRun

Spec == Init /\ [][Next]_vars

(***************************************************************************)
(* What the claims speak about.                                            *)
(***************************************************************************)
RECURSIVE SumSeq(_)
SumSeq(s) == IF s = <<>> THEN 0 ELSE Head(s) + SumSeq(Tail(s))

RECURSIVE SumRows(_, _)
SumRows(d, S) ==
  IF S = {} THEN 0
  ELSE LET f == CHOOSE g \in S : TRUE IN d[f].rows + SumRows(d, S \ {f})

RECURSIVE SumBytes(_, _)
SumBytes(d, S) ==
  IF S = {} THEN 0
  ELSE LET f == CHOOSE g \in S : TRUE IN d[f].bytes + SumBytes(d, S \ {f})

TotalRows == SumRows(disk, DOMAIN disk)

TotalBytes == SumBytes(disk, DOMAIN disk)

Tasks == 1..Len(task)

NoTaskDied == \A i \in Tasks : task[i].st # "died"

Running == {i \in Tasks : task[i].st = "running"}

WaveTasks(w) == {i \in Tasks : task[i].wave = w}

\* lines 218-220: the (file index, quota) pairs of the sequential loop
SequentialTasks(nfiles, quota) ==
  {<<Range(1, nfiles + 1)[j], quota>> : j \in 1..Len(Range(1, nfiles + 1))}

LaunchedTasks == {<<launchLog[j].f, launchLog[j].quota>> : j \in 1..Len(launchLog)}

WaveSize(w) == Cardinality({j \in 1..Len(launchLog) : launchLog[j].wave = w})

C3_WavesInSequence ==
  (concurrency_enabled /\ thread_count > 1) =>
    /\ Cardinality(Running) <= thread_count
    /\ \A i, j \in Tasks :
         (task[i].wave < task[j].wave /\ task[j].st # "created")
           => task[i].st \in Terminated

\* the whole second wave is running after a full first wave whose tasks
\* all wrote their files and returned
C3_Witness ==
  /\ concurrency_enabled /\ thread_count > 1
  /\ Cardinality(WaveTasks(1)) = thread_count
  /\ Cardinality(Running \cap WaveTasks(2)) = thread_count
  /\ \A i \in WaveTasks(1) : task[i].st = "finished" /\ task[i].batches # <<>>

C8_OneTaskPerFile ==
  (concurrency_enabled /\ thread_count >= 1 /\ cfg0.num_files >= 1) =>
    /\ \A j \in 1..Len(launchLog) : launchLog[j].f = j
    /\ Len(launchLog) <= cfg0.num_files
    /\ \A w \in 1..wave :
         IF w < wave \/ num_files # 0
         THEN WaveSize(w) = thread_count
         ELSE /\ WaveSize(w) = cfg0.num_files - thread_count * (w - 1)
              /\ WaveSize(w) \in 1..thread_count
    /\ pc = "returned" =>
         LaunchedTasks = SequentialTasks(cfg0.num_files,
                           PerFileQuota(use_size, size, num_records,
                                        cfg0.num_files))

\* threads=2, files=5 has returned after waves of 2, 2 and 1 tasks
C8_Witness ==
  /\ pc = "returned" /\ concurrency_enabled
  /\ thread_count = 2 /\ cfg0.num_files = 5
  /\ WaveSize(1) = 2 /\ WaveSize(2) = 2 /\ WaveSize(3) = 1
  /\ NoTaskDied

CountLoopArithmetic ==
  \A i \in Tasks :
    ("FIELDLIST" \in env.inherited /\ ~use_size /\ task[i].quota >= 0
       /\ task[i].st \in Terminated /\ task[i].err # "IOError") =>
      /\ task[i].st = "finished"
      /\ SumSeq(task[i].batches) = task[i].quota
      /\ \A b \in 1..Len(task[i].batches) :
           /\ task[i].batches[b] \in 1..nrows_threshold
           /\ b < Len(task[i].batches) => task[i].batches[b] = nrows_threshold

\* C10: generate() leaves the resolved configuration as __init__ left it.
C10_ConfigUnchanged ==
  pc = "returned" => Config = cfg0

\* the size strings of the specification: digits only, or digits followed
\* by one of K, M, G, T in either case
UnitChars == {"K", "M", "G", "T", "k", "m", "g", "t"}

AllDigits(s) == s # <<>> /\ \A i \in 1..Len(s) : s[i] \in DigitChars

WellFormedSize(s) ==
  \/ AllDigits(s)
  \/ /\ Len(s) >= 2
     /\ AllDigits(SubSeq(s, 1, Len(s) - 1))
     /\ s[Len(s)] \in UnitChars

\* C5: an update_constraints call on the defaults that returns leaves
\* DECIMAL_PRECISION > DECIMAL_SCALE, VARCHAR_MAX >= VARCHAR_MIN and
\* TEXT_MAX >= TEXT_MIN (it raises whenever the result would break one).
C5_UpdateKeepsInvariants ==
  ucResult = "returned" =>
    /\ CONSTRAINTS.DECIMAL_PRECISION > CONSTRAINTS.DECIMAL_SCALE
    /\ CONSTRAINTS.VARCHAR_MAX >= CONSTRAINTS.VARCHAR_MIN
    /\ CONSTRAINTS.TEXT_MAX >= CONSTRAINTS.TEXT_MIN

\* C6: the constructor rejects every size string that is neither digits
\* only nor digits followed by one unit: DataGen(args) raises, so that no
\* size is resolved and generate() is not reached.  (Stated for the
\* non-empty strings.)
C6_InvalidSizeRejected ==
  (args.SIZE \notin {NoSize, <<>>} /\ ~WellFormedSize(args.SIZE)) =>
    pc # "constructed"

\* C7: once the constructor has returned, the file count is >= 1,
\* whatever was requested; when none was requested it is 1 for a target
\* <= the ceiling and floor(target / ceiling) otherwise.
C7_FileCountAtLeastOne ==
  pc = "constructed" =>
    /\ num_files >= 1
    /\ ~Truthy(args.NUM_FILES) =>
         LET target == IF use_size THEN size ELSE num_records
             ceiling == IF use_size THEN SIZE_PER_FILE ELSE RECORDS_PER_FILE
         IN  num_files = IF target <= ceiling THEN 1 ELSE target \div ceiling

=============================================================================
